---- MODULE Spec2Model ----
(***************************************************************************)
(* Payment reconciliation of the accounts-receivable tool: the edge        *)
(* function supabase/functions/match-payments/index.ts over the tables     *)
(* invoices and payments.                                                  *)
(*                                                                         *)
(* Amounts are exact decimals counted in thousandths of the currency unit  *)
(* (Unit = 1000), so that toFixed(2), the 0.01 epsilon and the 15 % / 500   *)
(* tolerance all act on values finer than a cent.  The inputs are drawn     *)
(* from even thousandths, so no sum or difference lands on an exact half    *)
(* cent, where the result of toFixed depends on the binary representation. *)
(***************************************************************************)
EXTENDS Integers, Sequences, FiniteSets, TLC

\* ------------------------------------------------------------------ bounds
NumRuns == 2
NumInvoices == 3
NumPayments == 2
MaxLen == 3

\* ------------------------------------------------------- program constants
Unit == 1000
EPSILON == 10
TolerancePercent == 15
ToleranceFloor == 500000
ComboBonus == 10
MaxSuggestions == 5
NULL == 0
\* Number(text) of a text that is no numeral: a value no amount equals.
NaN == -2000000000

Abs(x) == IF x < 0 THEN -x ELSE x
Max(a, b) == IF a >= b THEN a ELSE b
Min(a, b) == IF a <= b THEN a ELSE b

\* Number(x.toFixed(2)): the nearest cent, a half cent going away from zero.
ToFixed2(x) == IF x >= 0 THEN ((x + 5) \div 10) * 10 ELSE -(((-x + 5) \div 10) * 10)

\* parseNumeric.  A value is held with its JavaScript type: a number, a
\* string that is a numeral ("string", with the number it denotes), a string
\* that is none ("text"), null or undefined.  A number is returned as it is;
\* a string whose Number() is not NaN gives that number; everything else
\* gives Number(value ?? 0): 0 for null and undefined, NaN for the text.
parseNumeric(value) ==
  CASE value.kind = "number" -> value.val
    [] value.kind = "string" -> value.val
    [] value.kind = "text" -> NaN
    [] OTHER -> 0

Num(n) == [kind |-> "number", val |-> n]

\* InvoiceSummary, as the handler builds it from a row.
InvoiceSummary(id, row) == [invoice_id |-> id, amount |-> parseNumeric(row.amount)]

\* ------------------------------------------------ buildPartialMatches
tolerance100(targetAmount) == Max(targetAmount * TolerancePercent, ToleranceFloor * 100)

shouldInclude(difference, targetAmount) == Abs(difference) * 100 <= tolerance100(targetAmount)

computeConfidence_byDistance(difference, invoiceCount, targetAmount) ==
  LET m == Max(targetAmount, Unit)
      ad == Min(Abs(difference), m)
  IN Min(((100 * ad) \div m) + (IF invoiceCount > 1 THEN ComboBonus ELSE 0), 100)

computeConfidence_noBonus(difference, invoiceCount, targetAmount) ==
  LET m == Max(targetAmount, Unit)
      ad == Min(Abs(difference), m)
      num == 100 * (m - ad)
  IN Min((num \div m) + (IF 2 * (num % m) >= m THEN 1 ELSE 0), 100)

\* Number(Math.min(baseScore + comboBonus, 1).toFixed(2)) * 100, in percent.
computeConfidence(difference, invoiceCount, targetAmount) ==
  LET m == Max(targetAmount, Unit)
      ad == Min(Abs(difference), m)
      num == 100 * (m - ad)
      q == num \div m
      r == num % m
      base == q + (IF 2 * r >= m THEN 1 ELSE 0)
      bonus == IF invoiceCount > 1 THEN ComboBonus ELSE 0
  IN Min(base + bonus, 100)

RECURSIVE SumAmounts(_)
SumAmounts(combo) ==
  IF combo = <<>> THEN 0 ELSE combo[1].amount + SumAmounts(Tail(combo))

MakeSuggestion_totalMinusTarget(combo, targetAmount) ==
  LET total == SumAmounts(combo)
      difference == total - targetAmount
  IN [invoices |-> combo,
      total_amount |-> ToFixed2(total),
      difference |-> ToFixed2(difference),
      confidence |-> computeConfidence(difference, Len(combo), targetAmount),
      reason |-> IF Len(combo) = 1 THEN "Similar single invoice amount"
                 ELSE "Potential multi-invoice combination"]

\* The suggestion the loops build for one combination of invoices.
MakeSuggestion(combo, targetAmount) ==
  LET total == SumAmounts(combo)
      difference == targetAmount - total
  IN [invoices |-> combo,
      total_amount |-> ToFixed2(total),
      difference |-> ToFixed2(difference),
      confidence |-> computeConfidence(difference, Len(combo), targetAmount),
      reason |-> IF Len(combo) = 1 THEN "Similar single invoice amount"
                 ELSE "Potential multi-invoice combination"]

IndexTuples_singlesOnly(n) == {<<i>> : i \in 1..n}

\* The index tuples in the order the three loops visit them.
IndexTuples(n) ==
  LET singles == {<<i>> : i \in 1..n}
      pairs == {<<i, j>> : i \in 1..n, j \in 1..n}
      triples == {<<i, j, k>> : i \in 1..n, j \in 1..n, k \in 1..n}
      Ascending(t) == \A a \in 1..(Len(t) - 1) : t[a] < t[a + 1]
  IN {t \in singles \cup pairs \cup triples : Ascending(t)}

Rank(t, n) ==
  LET b == n + 1
  IN CASE Len(t) = 1 -> t[1]
       [] Len(t) = 2 -> b * b + t[1] * b + t[2]
       [] OTHER -> b * b * b * b + t[1] * b * b + t[2] * b + t[3]

RECURSIVE InLoopOrder(_, _)
InLoopOrder(S, n) ==
  IF S = {} THEN <<>>
  ELSE LET first == CHOOSE t \in S : \A u \in S : Rank(t, n) <= Rank(u, n)
       IN <<first>> \o InLoopOrder(S \ {first}, n)

ComboAt(invoices, t) == [a \in 1..Len(t) |-> invoices[t[a]]]

\* Every candidate the loops hand to registerSuggestion, in that order.
Candidates(invoices, targetAmount) ==
  LET order == InLoopOrder(IndexTuples(Len(invoices)), Len(invoices))
      kept == SelectSeq(order, LAMBDA t :
                shouldInclude(targetAmount - SumAmounts(ComboAt(invoices, t)), targetAmount))
  IN [c \in 1..Len(kept) |-> MakeSuggestion(ComboAt(invoices, kept[c]), targetAmount)]

RECURSIVE SortIds(_)
SortIds(ids) ==
  IF ids = <<>> THEN <<>>
  ELSE LET least == CHOOSE a \in 1..Len(ids) : \A b \in 1..Len(ids) : ids[a] <= ids[b]
       IN <<ids[least]>> \o
          SortIds([b \in 1..(Len(ids) - 1) |-> IF b < least THEN ids[b] ELSE ids[b + 1]])

\* The Map key: the sorted invoice ids and Math.round(total_amount * 100).
SuggestionKey(suggestion) ==
  <<SortIds([a \in 1..Len(suggestion.invoices) |-> suggestion.invoices[a].invoice_id]),
    suggestion.total_amount \div 10>>

\* registerSuggestion without the confidence comparison: the first suggestion
\* of a key stays.
registerSuggestion_keepFirst(suggestions, suggestion) ==
  LET key == SuggestionKey(suggestion)
      at == {a \in 1..Len(suggestions) : suggestions[a].key = key}
  IN IF at = {} THEN Append(suggestions, [key |-> key, value |-> suggestion])
     ELSE suggestions

\* The Map is held as its entries in insertion order; set() on a present key
\* keeps the key's place.
registerSuggestion(suggestions, suggestion) ==
  LET key == SuggestionKey(suggestion)
      at == {a \in 1..Len(suggestions) : suggestions[a].key = key}
  IN IF at = {} THEN Append(suggestions, [key |-> key, value |-> suggestion])
     ELSE LET a == CHOOSE x \in at : TRUE
          IN IF suggestions[a].value.confidence < suggestion.confidence
             THEN [suggestions EXCEPT ![a].value = suggestion]
             ELSE suggestions

RECURSIVE RegisterAll(_, _)
RegisterAll(suggestions, cands) ==
  IF cands = <<>> THEN suggestions
  ELSE RegisterAll(registerSuggestion(suggestions, Head(cands)), Tail(cands))

\* The comparator without its tie-break on confidence.
CompareSuggestions_noTieBreak(a, b) == Abs(a.difference) - Abs(b.difference)

\* The comparator of the sort: negative when a goes before b.
CompareSuggestions(a, b) ==
  LET diffComparison == Abs(a.difference) - Abs(b.difference)
  IN IF diffComparison # 0 THEN diffComparison ELSE b.confidence - a.confidence

\* Array.prototype.sort is stable: insertion after the last element not
\* greater than the new one.
RECURSIVE InsertSorted(_, _)
InsertSorted(sorted, s) ==
  IF sorted = <<>> THEN <<s>>
  ELSE IF CompareSuggestions(s, Head(sorted)) < 0 THEN <<s>> \o sorted
       ELSE <<Head(sorted)>> \o InsertSorted(Tail(sorted), s)

RECURSIVE SortSuggestions(_)
SortSuggestions(list) ==
  IF list = <<>> THEN <<>>
  ELSE InsertSorted(SortSuggestions(SubSeq(list, 1, Len(list) - 1)), list[Len(list)])

\* slice(0, 5) left out.
Slice_all(list, n) == list

Slice(list, n) == SubSeq(list, 1, Min(n, Len(list)))

buildPartialMatches(invoices, targetAmount) ==
  LET map == RegisterAll(<<>>, Candidates(invoices, targetAmount))
      values == [a \in 1..Len(map) |-> map[a].value]
  IN Slice(SortSuggestions(values), MaxSuggestions)

exactMatch_none(openInvoices, paymentAmount) == 0

exactMatch_equalOnly(openInvoices, paymentAmount) ==
  LET hits == {a \in 1..Len(openInvoices) : openInvoices[a].amount = paymentAmount}
  IN IF hits = {} THEN 0 ELSE CHOOSE a \in hits : \A b \in hits : a <= b

\* The last invoice within the epsilon instead of the first.
exactMatch_last(openInvoices, paymentAmount) ==
  LET hits == {a \in 1..Len(openInvoices) :
                 Abs(openInvoices[a].amount - paymentAmount) < EPSILON}
  IN IF hits = {} THEN 0 ELSE CHOOSE a \in hits : \A b \in hits : a >= b

\* openInvoices.find(...): the index of the first invoice within the epsilon,
\* 0 when there is none.
exactMatch(openInvoices, paymentAmount) ==
  LET hits == {a \in 1..Len(openInvoices) :
                 Abs(openInvoices[a].amount - paymentAmount) < EPSILON}
  IN IF hits = {} THEN 0 ELSE CHOOSE a \in hits : \A b \in hits : a <= b

\* --------------------------------------------------------------- the store
VARIABLES invoices, payments, runs, mInvoices, mTarget, mDone, mResult,
          pValue, pDone, pResult

vars == <<invoices, payments, runs, mInvoices, mTarget, mDone, mResult,
          pValue, pDone, pResult>>
storeVars == <<invoices, payments, runs>>
matchVars == <<mInvoices, mTarget, mDone, mResult>>
parseVars == <<pValue, pDone, pResult>>

Tenants == {1, 2}
InvoiceIds == 1..NumInvoices
PaymentIds == 1..NumPayments
Runs == 1..NumRuns

\* Every third row belongs to the second tenant.
InvoiceTenant(i) == IF i % 3 = 0 THEN 2 ELSE 1
PaymentTenant(p) == IF p % 3 = 0 THEN 2 ELSE 1

\* The rows the store starts from: an open invoice within a cent of the
\* payment amount, an open one away from it, and one that is not open.
InitialInvoiceRows ==
  {[amount |-> Num(5000004), status |-> "open"],
   [amount |-> Num(4600000), status |-> "open"],
   [amount |-> Num(5000004), status |-> "overdue"]}
PaymentAmounts == {5000000}

IdleRun ==
  [pc |-> "idle", tenant_id |-> NULL, payment_id |-> NULL,
   payment |-> [status |-> "none", matched_invoice_id |-> NULL], paymentAmount |-> 0,
   openInvoices |-> <<>>, status |-> "needs_review", matched_invoice_id |-> NULL,
   response |-> [http |-> 0]]

StoreInit ==
  /\ invoices \in [InvoiceIds -> InitialInvoiceRows]
  /\ payments \in [PaymentIds -> [amount_received : {Num(a) : a \in PaymentAmounts},
                                  status : {"unmatched"},
                                  matched_invoice_id : {NULL}]]
  /\ runs = [r \in Runs |-> IdleRun]

MatchIdle ==
  /\ mInvoices = <<>>
  /\ mTarget = 0
  /\ mDone = FALSE
  /\ mResult = <<>>

ParseIdle ==
  /\ pValue = [kind |-> "null", val |-> 0]
  /\ pDone = FALSE
  /\ pResult = 0

Init == StoreInit /\ MatchIdle /\ ParseIdle

\* The handler has returned: its locals are gone, its response is kept.
Answered(response) == [IdleRun EXCEPT !.pc = "done", !.response = response]

\* The body of an error response: its HTTP status and its error text (for a
\* thrown error, the name of the error that was thrown).
ErrorResponse(code, error) == [http |-> code, error |-> error]

\* A payment_id no row of the table has.
UnknownPaymentId == NumPayments + 1

\* The POST requests: a content type and a body, which is blank, no JSON, an
\* object without payment_id, one whose payment_id is "", or one that names
\* a payment.
ContentTypes == {"application/json", "text/plain"}
RequestBodies ==
  {[shape |-> sh, payment_id |-> NULL] :
     sh \in {"blank", "malformed", "no_payment_id", "empty_payment_id"}}
  \cup {[shape |-> "payment_id", payment_id |-> id] :
          id \in PaymentIds \cup {UnknownPaymentId}}

\* A POST: the tenant of the caller's profile, the content type, the body.
Requests == [tenant_id : Tenants, contentType : ContentTypes, body : RequestBodies]

\* The body is parsed only under a JSON content type and when it is not
\* blank; a body that does not parse is answered at once; otherwise the
\* payment_id is body?.payment_id, and a falsy one is refused.
parsePaymentId_trusting(request) ==
  [error |-> "", payment_id |-> request.body.payment_id]

parsePaymentId(request) ==
  LET json == request.contentType = "application/json"
      body == request.body
  IN IF json /\ body.shape # "blank" /\ body.shape = "malformed"
     THEN [error |-> "Invalid JSON payload", payment_id |-> NULL]
     ELSE LET payment_id == IF json /\ body.shape = "payment_id"
                            THEN body.payment_id
                            ELSE NULL
          IN IF payment_id = NULL
             THEN [error |-> "payment_id is required", payment_id |-> NULL]
             ELSE [error |-> "", payment_id |-> payment_id]

PaymentVisible_anyTenant(t, id) == id \in PaymentIds

\* select from payments where payment_id and tenant_id match, .single().
PaymentVisible(t, id) == id \in PaymentIds /\ PaymentTenant(id) = t

\* The run of a POST up to the payment it reads: a refused body is answered
\* 400, a payment_id without a row of the caller's tenant 404, and otherwise
\* the payment is held and the invoices are read next.
PostEntry(request) ==
  LET parsed == parsePaymentId(request)
      id == parsed.payment_id
      t == request.tenant_id
  IN IF parsed.error # ""
     THEN Answered(ErrorResponse(400, parsed.error))
     ELSE IF PaymentVisible(t, id)
          THEN [IdleRun EXCEPT !.pc = "read_invoices",
                               !.tenant_id = t,
                               !.payment_id = id,
                               !.payment = [status |-> payments[id].status,
                                            matched_invoice_id |->
                                              payments[id].matched_invoice_id],
                               !.paymentAmount = parseNumeric(payments[id].amount_received)]
          ELSE Answered(ErrorResponse(404, "Payment not found"))

\* A POST whose body gives no payment_id is answered 400 before anything is
\* read.
RejectRequest(r) ==
  /\ runs[r].pc = "idle"
  /\ \E next \in {PostEntry(q) : q \in {q \in Requests : parsePaymentId(q).error # ""}} :
       runs' = [runs EXCEPT ![r] = next]
  /\ UNCHANGED <<invoices, payments, matchVars, parseVars>>

\* The request reaches the POST branch with the caller's tenant resolved and
\* a payment_id: the payment is read, and no row is answered 404.
FetchPayment(r) ==
  /\ runs[r].pc = "idle"
  /\ \E next \in {PostEntry(q) : q \in {q \in Requests : parsePaymentId(q).error = ""}} :
       runs' = [runs EXCEPT ![r] = next]
  /\ UNCHANGED <<invoices, payments, matchVars, parseVars>>

\* The payment read fails: paymentError is answered with 404 as well.
FetchPaymentFails(r) ==
  /\ runs[r].pc = "idle"
  /\ runs' = [runs EXCEPT ![r] = Answered(ErrorResponse(404, "Payment not found"))]
  /\ UNCHANGED <<invoices, payments, matchVars, parseVars>>

OpenInvoiceIds_anyStatus(t) == {i \in InvoiceIds : InvoiceTenant(i) = t}

OpenInvoiceIds_anyTenant(t) == {i \in InvoiceIds : invoices[i].status = "open"}

\* select from invoices where tenant_id matches and status = 'open'.
OpenInvoiceIds(t) == {i \in InvoiceIds : InvoiceTenant(i) = t /\ invoices[i].status = "open"}

RECURSIVE AscendingSeq(_)
AscendingSeq(S) ==
  IF S = {} THEN <<>>
  ELSE LET least == CHOOSE x \in S : \A y \in S : x <= y
       IN <<least>> \o AscendingSeq(S \ {least})

Reverse(list) == [a \in 1..Len(list) |-> list[Len(list) + 1 - a]]

\* The rows of a select without ORDER BY come in an order the store chooses:
\* here by ascending or by descending invoice_id.
Orderings(S) == {AscendingSeq(S), Reverse(AscendingSeq(S))}

\* The open invoices of the tenant are read, mapped to InvoiceSummary, and
\* searched for the exact match.
ReadOpenInvoices(r) ==
  /\ runs[r].pc = "read_invoices"
  /\ \E o \in Orderings(OpenInvoiceIds(runs[r].tenant_id)) :
       LET openInvoices == [a \in 1..Len(o) |-> InvoiceSummary(o[a], invoices[o[a]])]
           found == exactMatch(openInvoices, runs[r].paymentAmount)
       IN runs' = [runs EXCEPT ![r] =
                     IF found # 0
                     THEN [@ EXCEPT !.pc = "update_invoice",
                                    !.openInvoices = openInvoices,
                                    !.status = "matched",
                                    !.matched_invoice_id = openInvoices[found].invoice_id]
                     ELSE [@ EXCEPT !.pc = "update_payment",
                                    !.openInvoices = openInvoices]]
  /\ UNCHANGED <<invoices, payments, matchVars, parseVars>>

ReadOpenInvoicesFails_notFound(r) ==
  /\ runs[r].pc = "read_invoices"
  /\ runs' = [runs EXCEPT ![r] = Answered(ErrorResponse(404, "Payment not found"))]
  /\ UNCHANGED <<invoices, payments, matchVars, parseVars>>

\* openInvoicesError is thrown and answered with 500.
ReadOpenInvoicesFails(r) ==
  /\ runs[r].pc = "read_invoices"
  /\ runs' = [runs EXCEPT ![r] = Answered(ErrorResponse(500, "openInvoicesError"))]
  /\ UNCHANGED <<invoices, payments, matchVars, parseVars>>

UpdateInvoice_unscoped(r) ==
  /\ runs[r].pc = "update_invoice"
  /\ invoices' = [i \in InvoiceIds |->
                    IF InvoiceTenant(i) = runs[r].tenant_id
                    THEN [invoices[i] EXCEPT !.status = "paid"]
                    ELSE invoices[i]]
  /\ runs' = [runs EXCEPT ![r].pc = "update_payment"]
  /\ UNCHANGED <<payments, matchVars, parseVars>>

\* update invoices set status = 'paid' where invoice_id and tenant_id match.
UpdateInvoice(r) ==
  /\ runs[r].pc = "update_invoice"
  /\ invoices' = [i \in InvoiceIds |->
                    IF i = runs[r].matched_invoice_id /\ InvoiceTenant(i) = runs[r].tenant_id
                    THEN [invoices[i] EXCEPT !.status = "paid"]
                    ELSE invoices[i]]
  /\ runs' = [runs EXCEPT ![r].pc = "update_payment"]
  /\ UNCHANGED <<payments, matchVars, parseVars>>

UpdateInvoiceFails_continues(r) ==
  /\ runs[r].pc = "update_invoice"
  /\ runs' = [runs EXCEPT ![r].pc = "update_payment"]
  /\ UNCHANGED <<invoices, payments, matchVars, parseVars>>

\* invoiceUpdateError is thrown and answered with 500.
UpdateInvoiceFails(r) ==
  /\ runs[r].pc = "update_invoice"
  /\ runs' = [runs EXCEPT ![r] = Answered(ErrorResponse(500, "invoiceUpdateError"))]
  /\ UNCHANGED <<invoices, payments, matchVars, parseVars>>

\* The suggestions computed only on the matched path.
partialMatches_swapped(run) ==
  IF run.status = "matched"
  THEN buildPartialMatches(
         SelectSeq(run.openInvoices, LAMBDA inv : inv.invoice_id # run.matched_invoice_id),
         run.paymentAmount)
  ELSE <<>>

\* The partial matches of the response.
partialMatches(run) ==
  IF run.status = "matched" THEN <<>>
  ELSE buildPartialMatches(
         SelectSeq(run.openInvoices, LAMBDA inv : inv.invoice_id # run.matched_invoice_id),
         run.paymentAmount)

exactMatches(run) ==
  IF run.status = "matched"
  THEN SelectSeq(run.openInvoices, LAMBDA inv : inv.invoice_id = run.matched_invoice_id)
  ELSE <<>>

\* The body of the 200 response.
OkResponse(run) ==
  [http |-> 200,
   status |-> run.status,
   payment |-> [payment_id |-> run.payment_id,
                amount_received |-> ToFixed2(run.paymentAmount),
                status |-> run.status,
                matched_invoice_id |-> run.matched_invoice_id],
   exact_matches |-> exactMatches(run),
   partial_matches |-> partialMatches(run)]

UpdatePayment_statusOnly(r) ==
  /\ runs[r].pc = "update_payment"
  /\ payments' = [p \in PaymentIds |->
                    IF p = runs[r].payment_id /\ PaymentTenant(p) = runs[r].tenant_id
                    THEN [payments[p] EXCEPT !.status = runs[r].status]
                    ELSE payments[p]]
  /\ runs' = [runs EXCEPT ![r] = Answered(OkResponse(runs[r]))]
  /\ UNCHANGED <<invoices, matchVars, parseVars>>

\* update payments set status, matched_invoice_id where payment_id and
\* tenant_id match; then the response is built and returned.
UpdatePayment(r) ==
  /\ runs[r].pc = "update_payment"
  /\ payments' = [p \in PaymentIds |->
                    IF p = runs[r].payment_id /\ PaymentTenant(p) = runs[r].tenant_id
                    THEN [payments[p] EXCEPT !.status = runs[r].status,
                                             !.matched_invoice_id = runs[r].matched_invoice_id]
                    ELSE payments[p]]
  /\ runs' = [runs EXCEPT ![r] = Answered(OkResponse(runs[r]))]
  /\ UNCHANGED <<invoices, matchVars, parseVars>>

\* paymentUpdateError is thrown and answered with 500.
UpdatePaymentFails(r) ==
  /\ runs[r].pc = "update_payment"
  /\ runs' = [runs EXCEPT ![r] = Answered(ErrorResponse(500, "paymentUpdateError"))]
  /\ UNCHANGED <<invoices, payments, matchVars, parseVars>>

Next ==
  \E r \in Runs :
    \/ RejectRequest(r)
    \/ FetchPayment(r)
    \/ FetchPaymentFails(r)
    \/ ReadOpenInvoices(r)
    \/ ReadOpenInvoicesFails(r)
    \/ UpdateInvoice(r)
    \/ UpdateInvoiceFails(r)
    \/ UpdatePayment(r)
    \/ UpdatePaymentFails(r)

Spec == Init /\ [][Next]_vars

\* ------------------------------------------- runs one after the other
\* No run but r is between its first read and its response.
NoneInFlight(r) == \A q \in Runs \ {r} : runs[q].pc \in {"idle", "done"}

\* The handler steps when requests do not overlap and every call to the
\* store succeeds.
SeqNext ==
  \E r \in Runs :
    /\ NoneInFlight(r)
    /\ \/ FetchPayment(r)
       \/ ReadOpenInvoices(r)
       \/ UpdateInvoice(r)
       \/ UpdatePayment(r)

SeqSpec == Init /\ [][SeqNext]_vars

\* ------------------------------------------------- re-triggered payments
\* The store some time after earlier runs left every payment 'needs_review':
\* the invoices are whatever rows the table holds by then.
RetriggerInit ==
  /\ invoices \in [InvoiceIds -> InitialInvoiceRows]
  /\ payments \in [PaymentIds -> [amount_received : {Num(a) : a \in PaymentAmounts},
                                  status : {"needs_review"},
                                  matched_invoice_id : {NULL}]]
  /\ runs = [r \in Runs |-> IdleRun]
  /\ MatchIdle
  /\ ParseIdle

RetriggerSpec == RetriggerInit /\ [][Next]_vars

\* ------------------------------------------- the matcher on arbitrary lists
MatchIds == {1, 2, 3}
MatchAmounts == {2, 996, 1000, 3400044}
MatchTargets == {1002, 4000050}

MatchInvoices == [invoice_id : MatchIds, amount : MatchAmounts]

StoreIdle ==
  /\ invoices = <<>>
  /\ payments = <<>>
  /\ runs = <<>>

\* The worked example: invoices A, B and C of 2000.00, 3200.00 and 10000.00
\* against a payment of 5300.00, in any order of the list.
ExampleInvoices ==
  {[invoice_id |-> 1, amount |-> 2000000],
   [invoice_id |-> 2, amount |-> 3200000],
   [invoice_id |-> 3, amount |-> 10000000]}
ExampleTarget == 5300000
ExampleLists ==
  {list \in [1..3 -> ExampleInvoices] : \A a \in 1..3, b \in 1..3 : a # b => list[a] # list[b]}

\* Amounts the columns admit (NUMERIC, no CHECK) that are no usable amount:
\* lists of one or two invoices of -1.00, 0 or 1.00 against a payment of 0
\* or of 1.002.
UnusableInvoices == [invoice_id : {1, 2}, amount : {-1000, 0, 1000}]
UnusableTargets == {0, 1002}
UnusableLists == [1..1 -> UnusableInvoices] \cup [1..2 -> UnusableInvoices]

MatchInit ==
  /\ StoreIdle
  /\ ParseIdle
  /\ \/ /\ \E n \in 0..MaxLen : mInvoices \in [1..n -> MatchInvoices]
        /\ mTarget \in MatchTargets
     \/ /\ mInvoices \in ExampleLists
        /\ mTarget = ExampleTarget
     \/ /\ mInvoices \in UnusableLists
        /\ mTarget \in UnusableTargets
  /\ mDone = FALSE
  /\ mResult = <<>>

Match ==
  /\ ~mDone
  /\ mResult' = buildPartialMatches(mInvoices, mTarget)
  /\ mDone' = TRUE
  /\ UNCHANGED <<storeVars, mInvoices, mTarget, parseVars>>

MatchNext == Match

MatchSpec == MatchInit /\ [][MatchNext]_vars

\* --------------------------------------------- parseNumeric on any value
\* The values parseNumeric is given: numbers and numerals (in thousandths),
\* a text that is no numeral, null and undefined.
ParseNumbers == {502 * n : n \in -30..30}
ParseValues ==
  [kind : {"number", "string"}, val : ParseNumbers]
  \cup [kind : {"text", "null", "undefined"}, val : {0}]

ParseInit ==
  /\ StoreIdle
  /\ MatchIdle
  /\ pValue \in ParseValues
  /\ pDone = FALSE
  /\ pResult = 0

Parse ==
  /\ ~pDone
  /\ pResult' = parseNumeric(pValue)
  /\ pDone' = TRUE
  /\ UNCHANGED <<storeVars, matchVars, pValue>>

ParseNext == Parse

ParseSpec == ParseInit /\ [][ParseNext]_vars

\* ------------------------------------------------------------------ claims
Returned(r) == runs[r].pc = "done" /\ runs[r].response.http = 200

\* The step is one of run r, and r answers 200 by it.
StepOf(r) == runs'[r] # runs[r]
Returns(r) == StepOf(r) /\ runs'[r].pc = "done" /\ runs'[r].response.http = 200

\* The indices of the snapshot within 0.01 of the payment amount.
WithinEpsilon(list, amount) ==
  {a \in 1..Len(list) : Abs(list[a].amount - amount) < EPSILON}

\* C1: when the snapshot of open invoices holds an invoice within 0.01 of the
\* payment amount, the result reconcile returns is 'matched', its
\* exact_matches is the first such invoice of the snapshot alone, and its
\* partial_matches is empty.
C1_ExactMatchFirstInOrder ==
  [][\A r \in Runs :
       (Returns(r) /\ WithinEpsilon(runs[r].openInvoices, runs[r].paymentAmount) # {}) =>
         LET hits == WithinEpsilon(runs[r].openInvoices, runs[r].paymentAmount)
             first == CHOOSE a \in hits : \A b \in hits : a <= b
         IN /\ runs'[r].response.status = "matched"
            /\ runs'[r].response.exact_matches = <<runs[r].openInvoices[first]>>
            /\ runs'[r].response.payment.matched_invoice_id
                 = runs[r].openInvoices[first].invoice_id
            /\ runs'[r].response.partial_matches = <<>>]_vars

\* A run returned 'matched' to an invoice while an invoice of the same tenant
\* with a smaller invoice_id is open and within 0.01 of the payment as well:
\* the snapshot came in descending order and held both.
C1_Witness ==
  \E r \in Runs :
    /\ Returned(r)
    /\ runs[r].response.status = "matched"
    /\ Len(runs[r].response.exact_matches) = 1
    /\ \E i \in InvoiceIds :
         /\ i < runs[r].response.payment.matched_invoice_id
         /\ InvoiceTenant(i) = InvoiceTenant(runs[r].response.payment.matched_invoice_id)
         /\ invoices[i].status = "open"
         /\ Abs(parseNumeric(invoices[i].amount)
                - parseNumeric(payments[runs[r].response.payment.payment_id].amount_received))
              < EPSILON

\* C2: the dual update is atomic: no reachable state of the store has an
\* invoice that reconcile marked 'paid' without a payment 'matched' to it,
\* nor a payment 'matched' to an invoice that is still 'open'.
C2_AtomicDualUpdate ==
  /\ \A i \in InvoiceIds :
       invoices[i].status = "paid" =>
         \E p \in PaymentIds :
           payments[p].status = "matched" /\ payments[p].matched_invoice_id = i
  /\ \A p \in PaymentIds :
       payments[p].status = "matched" =>
         invoices[payments[p].matched_invoice_id].status # "open"

\* C3: no invoice is referenced by two matched payments.
C3_NoDoubleBooking ==
  \A p, q \in PaymentIds :
    (p # q /\ payments[p].status = "matched" /\ payments[q].status = "matched") =>
      payments[p].matched_invoice_id # payments[q].matched_invoice_id

\* C4: a run that found its payment already 'matched' to invoice I, the row
\* being unchanged since, changes no invoice, leaves the payment's
\* matched_invoice_id at I and returns no match to another invoice.
C4_IdempotentOnMatched ==
  [][\A r \in Runs :
       (/\ StepOf(r)
        /\ runs[r].payment.status = "matched"
        /\ payments[runs[r].payment_id].status = "matched"
        /\ payments[runs[r].payment_id].matched_invoice_id
             = runs[r].payment.matched_invoice_id) =>
         /\ invoices' = invoices
         /\ payments'[runs[r].payment_id].matched_invoice_id
              = runs[r].payment.matched_invoice_id
         /\ (runs'[r].response.http = 200 /\ runs'[r].response.status = "matched") =>
              runs'[r].response.payment.matched_invoice_id
                = runs[r].payment.matched_invoice_id]_vars

\* C5: the stored payment status only moves unmatched -> matched,
\* unmatched -> needs_review, or from needs_review on a later run; 'matched'
\* is terminal.
C5_PaymentStateMachine ==
  [][\A p \in PaymentIds :
       \/ payments'[p].status = payments[p].status
       \/ payments[p].status = "unmatched"
            /\ payments'[p].status \in {"matched", "needs_review"}
       \/ payments[p].status = "needs_review"
            /\ payments'[p].status \in {"matched", "needs_review"}]_vars

\* C6: a run whose snapshot has no invoice within 0.01 of the payment changes
\* no invoice; its payment write stores 'needs_review' with no matched
\* invoice, and it returns 'needs_review', no exact match and the ranked
\* suggestions over the whole snapshot.
C6_NoMatchPath ==
  [][\A r \in Runs :
       (StepOf(r) /\ WithinEpsilon(runs[r].openInvoices, runs[r].paymentAmount) = {}) =>
         /\ (runs[r].pc \in {"update_invoice", "update_payment"}) => invoices' = invoices
         /\ Returns(r) =>
              /\ payments'[runs[r].payment_id].status = "needs_review"
              /\ payments'[runs[r].payment_id].matched_invoice_id = NULL
              /\ runs'[r].response.status = "needs_review"
              /\ runs'[r].response.exact_matches = <<>>
              /\ runs'[r].response.partial_matches
                   = buildPartialMatches(runs[r].openInvoices, runs[r].paymentAmount)]_vars

\* A run returned 'needs_review' with a suggestion and no exact match, and
\* its payment is stored 'needs_review' with no matched invoice.
C6_Witness ==
  \E r \in Runs :
    /\ Returned(r)
    /\ runs[r].response.status = "needs_review"
    /\ runs[r].response.exact_matches = <<>>
    /\ runs[r].response.partial_matches # <<>>
    /\ payments[runs[r].response.payment.payment_id].status = "needs_review"
    /\ payments[runs[r].response.payment.payment_id].matched_invoice_id = NULL

\* The index tuples of 1, 2 or 3 pairwise distinct elements of a list.
DistinctElements(list) ==
  {t \in UNION {[1..k -> 1..Len(list)] : k \in 1..3} :
     \A a, b \in 1..Len(t) : a < b => t[a] < t[b]}

\* C7: with no exact match in the input, every returned suggestion holds 1,
\* 2 or 3 pairwise distinct elements of the input, and its |difference| is
\* at most max(target * 0.15, 500).
C7_SuggestionWithinTolerance ==
  (mDone /\ WithinEpsilon(mInvoices, mTarget) = {}) =>
    \A a \in 1..Len(mResult) :
      /\ \E t \in DistinctElements(mInvoices) :
           mResult[a].invoices = [b \in 1..Len(t) |-> mInvoices[t[b]]]
      /\ Abs(mResult[a].difference) * 100
           <= Max(mTarget * TolerancePercent, ToleranceFloor * 100)

\* C8: of two returned suggestions the earlier has the smaller |difference|,
\* or the same |difference| and a confidence not lower.
C8_Ranking ==
  mDone =>
    \A a, b \in 1..Len(mResult) :
      a < b =>
        \/ Abs(mResult[a].difference) < Abs(mResult[b].difference)
        \/ /\ Abs(mResult[a].difference) = Abs(mResult[b].difference)
           /\ mResult[a].confidence >= mResult[b].confidence

\* A result in which one neighbouring pair is ordered by |difference| and
\* another, of equal |difference|, by confidence.
C8_Witness ==
  /\ mDone
  /\ \E a, b \in 1..Len(mResult) :
       a < b /\ Abs(mResult[a].difference) < Abs(mResult[b].difference)
  /\ \E a, b \in 1..Len(mResult) :
       /\ a < b
       /\ Abs(mResult[a].difference) = Abs(mResult[b].difference)
       /\ mResult[a].confidence > mResult[b].confidence

\* C9: the returned list has at most 5 elements.
C9_AtMostFive == mDone => Len(mResult) <= 5

\* More than five suggestions were registered and five are returned.
C9_Witness ==
  /\ mDone
  /\ Len(RegisterAll(<<>>, Candidates(mInvoices, mTarget))) > 5
  /\ Len(mResult) = 5

\* The invoice identifiers of a suggestion, sorted, and its total in cents.
IdsAndCents(s) ==
  <<SortIds([a \in 1..Len(s.invoices) |-> s.invoices[a].invoice_id]), s.total_amount \div 10>>

\* C10: no two returned suggestions have the same invoice identifiers and the
\* same total rounded to cents, and a returned suggestion has the greatest
\* confidence of the candidates with its identifiers and rounded total.
C10_Deduplication ==
  mDone =>
    LET cands == Candidates(mInvoices, mTarget)
        keys == [c \in 1..Len(cands) |-> IdsAndCents(cands[c])]
        kept == [a \in 1..Len(mResult) |-> IdsAndCents(mResult[a])]
    IN /\ \A a, b \in 1..Len(mResult) : a # b => kept[a] # kept[b]
       /\ \A a \in 1..Len(mResult) :
            \A c \in 1..Len(cands) :
              keys[c] = kept[a] => cands[c].confidence <= mResult[a].confidence

\* Two candidates collided, the later with the higher confidence, and the
\* result holds a suggestion with their identifiers and total.
C10_Witness ==
  /\ mDone
  /\ LET cands == Candidates(mInvoices, mTarget)
     IN \E c, d \in 1..Len(cands) :
          /\ c < d
          /\ IdsAndCents(cands[c]) = IdsAndCents(cands[d])
          /\ cands[c].confidence < cands[d].confidence
          /\ \E a \in 1..Len(mResult) : IdsAndCents(mResult[a]) = IdsAndCents(cands[d])

\* The body of a POST that names payment id.
NamesPayment(id) == [shape |-> "payment_id", payment_id |-> id]

\* C11: a POST whose payment id has no payment row in the caller's tenant (an
\* unknown id, or a payment of another tenant) is answered 404 NotFound, and
\* by that request no payment row and no invoice row of any tenant changes.
C11_NotFoundChangesNothing ==
  [][\A r \in Runs :
       (runs[r].pc = "idle" /\ StepOf(r)) =>
       \A t \in Tenants, id \in PaymentIds \cup {UnknownPaymentId} :
         (/\ ~(id \in PaymentIds /\ PaymentTenant(id) = t)
          /\ runs'[r] = PostEntry([tenant_id |-> t, contentType |-> "application/json",
                                   body |-> NamesPayment(id)]))
         => /\ runs'[r].pc = "done"
            /\ runs'[r].response.http = 404
            /\ invoices' = invoices
            /\ payments' = payments]_vars

\* A run was answered 404 after another run matched a payment: the rows that
\* run wrote are as it left them.
C11_Witness ==
  \E r \in Runs, q \in Runs :
    /\ runs[r].pc = "done" /\ runs[r].response.http = 404
    /\ Returned(q) /\ runs[q].response.status = "matched"
    /\ payments[runs[q].response.payment.payment_id].status = "matched"

\* C12: when the read of the open invoices fails, the request ends with an
\* error that is not NotFound (500, not 404), and the payment's status and
\* matched_invoice_id and every invoice's status are as before.
C12_InvoiceReadFailure ==
  [][\A r \in Runs :
       (StepOf(r) /\ runs[r].pc = "read_invoices" /\ runs'[r].pc = "done")
       => /\ runs'[r].response.http = 500
          /\ runs'[r].response.http # 404
          /\ payments' = payments
          /\ invoices' = invoices]_vars

\* A run ended on openInvoicesError.
C12_Witness ==
  \E r \in Runs :
    /\ runs[r].pc = "done"
    /\ runs[r].response.http = 500
    /\ runs[r].response.error = "openInvoicesError"

\* C13: when an exact match was found and a write of the dual update fails,
\* the request does not fail: it ends 200; unless it reports 'matched', it
\* reports 'needs_review' with the partial suggestions and the stored payment
\* is 'unmatched' with no matched_invoice_id.
C13_TransientWriteFallsBack ==
  [][\A r \in Runs :
       (StepOf(r) /\ runs[r].status = "matched" /\ runs'[r].pc = "done")
       => /\ runs'[r].response.http = 200
          /\ \/ runs'[r].response.status = "matched"
             \/ /\ runs'[r].response.status = "needs_review"
                /\ payments'[runs[r].payment_id].status = "unmatched"
                /\ payments'[runs[r].payment_id].matched_invoice_id = NULL]_vars

\* C14: a POST whose payment identifier is missing, empty, or lost in a body
\* that does not parse is answered 400 InputInvalid with nothing read (the run
\* holds no payment and no invoice) and no row changed.
C14_InputInvalid ==
  [][\A r \in Runs :
       (runs[r].pc = "idle" /\ StepOf(r)) =>
       \A q \in Requests :
         (/\ q.body.shape \in {"blank", "malformed", "no_payment_id", "empty_payment_id"}
          /\ runs'[r] = PostEntry(q))
         => /\ runs'[r].pc = "done"
            /\ runs'[r].response.http = 400
            /\ runs'[r].payment.status = "none"
            /\ runs'[r].openInvoices = <<>>
            /\ invoices' = invoices
            /\ payments' = payments]_vars

\* One run was refused for a body that does not parse and one for a missing
\* payment_id.
C14_Witness ==
  \E r \in Runs, q \in Runs :
    /\ runs[r].pc = "done" /\ runs[r].response.http = 400
    /\ runs[r].response.error = "Invalid JSON payload"
    /\ runs[q].pc = "done" /\ runs[q].response.http = 400
    /\ runs[q].response.error = "payment_id is required"

\* C15: parseNumeric returns a finite number for a number, a numeral, a text
\* that is no numeral, null and undefined; the last three all give 0.
C15_ParseNumericTotal ==
  pDone => /\ pResult # NaN
           /\ pValue.kind \in {"text", "null", "undefined"} => pResult = 0

\* The invoice ids a response names, in exact_matches and in the suggestions.
ResponseInvoiceIds(response) ==
  {response.exact_matches[a].invoice_id : a \in 1..Len(response.exact_matches)}
  \cup UNION {{response.partial_matches[a].invoices[b].invoice_id :
                 b \in 1..Len(response.partial_matches[a].invoices)} :
              a \in 1..Len(response.partial_matches)}

\* C16: every invoice the run reads into its snapshot belongs to the tenant
\* of the payment and is 'open' in the store at that read, and every invoice
\* in exact_matches or in a suggestion of the response is one of that
\* snapshot.
C16_TenantAndStatusScoping ==
  [][\A r \in Runs :
       /\ (StepOf(r) /\ runs[r].pc = "read_invoices" /\ runs'[r].pc # "done")
          => \A a \in 1..Len(runs'[r].openInvoices) :
               LET id == runs'[r].openInvoices[a].invoice_id
               IN /\ InvoiceTenant(id) = PaymentTenant(runs[r].payment_id)
                  /\ invoices[id].status = "open"
       /\ Returns(r)
          => \A id \in ResponseInvoiceIds(runs'[r].response) :
               /\ InvoiceTenant(id) = PaymentTenant(runs[r].payment_id)
               /\ \E a \in 1..Len(runs[r].openInvoices) :
                    runs[r].openInvoices[a].invoice_id = id]_vars

\* A response names invoices while another tenant has an open invoice and
\* the payment's tenant has one that is not open.
C16_Witness ==
  \E r \in Runs :
    /\ Returned(r)
    /\ ResponseInvoiceIds(runs[r].response) # {}
    /\ \E i \in InvoiceIds, j \in InvoiceIds :
         LET t == PaymentTenant(runs[r].response.payment.payment_id)
         IN /\ InvoiceTenant(i) # t /\ invoices[i].status = "open"
            /\ InvoiceTenant(j) = t /\ invoices[j].status = "overdue"

C19_ConfidenceFormula ==
  mDone => \A a \in 1..Len(mResult) :
             LET m == Max(mTarget, Unit)
                 relative == Min(Abs(mResult[a].difference), m)
                 score == 100 * (m - relative)
                 rounded == (score \div m) + (IF 2 * (score % m) >= m THEN 1 ELSE 0)
                 bonus == IF Len(mResult[a].invoices) > 1 THEN 10 ELSE 0
             IN /\ mResult[a].confidence = Min(rounded + bonus, 100)
                /\ mResult[a].confidence >= 0
                /\ mResult[a].confidence =< 100

\* The invoice ids of a suggestion.
SuggestionIds(suggestion) ==
  {suggestion.invoices[a].invoice_id : a \in 1..Len(suggestion.invoices)}

\* C20: for the target 5300.00 and the open invoices A = 2000.00,
\* B = 3200.00, C = 10000.00 no invoice is within 0.01 of the target, and the
\* suggestions hold {A, B} with total 5200.00 and difference 100.00, ahead
\* of every single-invoice suggestion whose |difference| is larger.
C20_WorkedExample ==
  (mDone /\ mTarget = ExampleTarget /\ mInvoices \in ExampleLists)
  => /\ WithinEpsilon(mInvoices, mTarget) = {}
     /\ \E a \in 1..Len(mResult) :
          /\ SuggestionIds(mResult[a]) = {1, 2}
          /\ mResult[a].total_amount = 5200000
          /\ mResult[a].difference = 100000
          /\ Abs(mResult[a].difference) * 100 =< 79500000
          /\ \A b \in 1..Len(mResult) :
               (Len(mResult[b].invoices) = 1
                /\ Abs(mResult[b].difference) > Abs(mResult[a].difference))
               => a < b

\* The example was matched with C first in the list.
C20_Witness ==
  /\ mDone
  /\ mTarget = ExampleTarget
  /\ mInvoices \in ExampleLists
  /\ mInvoices[1].invoice_id = 3
  /\ mResult # <<>>

\* C21: an amount that is zero or negative after normalization is never
\* matched or suggested: for a payment amount of 0 or less nothing is
\* suggested, and no suggestion holds an invoice whose amount is 0 or less.
C21_NoUnusableAmount ==
  mDone =>
    /\ mTarget =< 0 => mResult = <<>>
    /\ \A a \in 1..Len(mResult) :
         \A b \in 1..Len(mResult[a].invoices) : mResult[a].invoices[b].amount > 0

\* The identifiers of a list are pairwise distinct.
DistinctIds(list) ==
  \A a, b \in 1..Len(list) : a # b => list[a].invoice_id # list[b].invoice_id

\* The returned difference of the subset of the input at the indices t.
SubsetDifference(t) ==
  ToFixed2(mTarget - SumAmounts([b \in 1..Len(t) |-> mInvoices[t[b]]]))

\* The subsets of size 1, 2 or 3 whose |difference| is within the tolerance.
Qualifying ==
  {t \in DistinctElements(mInvoices) :
     Abs(SubsetDifference(t)) * 100 <= Max(mTarget * TolerancePercent, ToleranceFloor * 100)}

\* C22: for invoices with pairwise distinct identifiers the returned list is
\* the first min(5, m) of the m qualifying subsets in rank order: it has that
\* length, each element is a qualifying subset and none comes twice, and no
\* qualifying subset left out has a strictly smaller |difference| than a
\* returned one.
C22_Completeness ==
  (mDone /\ DistinctIds(mInvoices)) =>
    LET returned == {t \in DistinctElements(mInvoices) :
                       \E a \in 1..Len(mResult) :
                         mResult[a].invoices = [b \in 1..Len(t) |-> mInvoices[t[b]]]}
    IN /\ Len(mResult) = Min(MaxSuggestions, Cardinality(Qualifying))
       /\ returned \subseteq Qualifying
       /\ Cardinality(returned) = Len(mResult)
       /\ \A t \in Qualifying \ returned :
            \A a \in 1..Len(mResult) :
              Abs(SubsetDifference(t)) >= Abs(mResult[a].difference)

\* The pairs (a, b) of returned suggestions, a of several invoices and b of
\* one, with the same |difference|.
ComboAndSingle ==
  {p \in (1..Len(mResult)) \X (1..Len(mResult)) :
     /\ Len(mResult[p[1]].invoices) > 1
     /\ Len(mResult[p[2]].invoices) = 1
     /\ Abs(mResult[p[1]].difference) = Abs(mResult[p[2]].difference)}

\* C23 as stated: a multi-invoice suggestion has a strictly higher confidence
\* than a single-invoice suggestion of the same |difference| and is ranked
\* before it.
C23_ComboBonusStrict ==
  mDone => \A p \in ComboAndSingle :
             /\ mResult[p[1]].confidence > mResult[p[2]].confidence
             /\ p[1] < p[2]

\* C23 amended: the multi-invoice suggestion's confidence is never lower;
\* it is strictly higher, and the suggestion ranked before the single one,
\* whenever the single one's confidence is below 100 (the sum is capped at
\* 100, where the two tie).
C23_ComboBonusCapped ==
  mDone => \A p \in ComboAndSingle :
             /\ mResult[p[1]].confidence >= mResult[p[2]].confidence
             /\ mResult[p[2]].confidence < 100 =>
                  /\ mResult[p[1]].confidence > mResult[p[2]].confidence
                  /\ p[1] < p[2]

\* A result holds a combination ranked before a single invoice of the same
\* |difference| and a lower confidence.
C23_Witness ==
  /\ mDone
  /\ \E p \in ComboAndSingle :
       mResult[p[2]].confidence < mResult[p[1]].confidence /\ p[1] < p[2]

\* C24: a run on a payment it found 'needs_review' is an ordinary run: when
\* its snapshot holds an invoice within 0.01 the payment is stored and
\* returned 'matched' to the first such invoice, and otherwise the payment
\* stays 'needs_review' and the suggestions are those of the snapshot, the
\* same as any run on that snapshot returns.
C24_Retrigger ==
  [][\A r \in Runs :
       (Returns(r) /\ runs[r].payment.status = "needs_review") =>
         LET hits == WithinEpsilon(runs[r].openInvoices, runs[r].paymentAmount)
         IN /\ hits # {} =>
                 LET first == CHOOSE a \in hits : \A b \in hits : a <= b
                 IN /\ runs'[r].response.status = "matched"
                    /\ payments'[runs[r].payment_id].status = "matched"
                    /\ payments'[runs[r].payment_id].matched_invoice_id
                         = runs[r].openInvoices[first].invoice_id
            /\ hits = {} =>
                 /\ runs'[r].response.status = "needs_review"
                 /\ payments'[runs[r].payment_id].status = "needs_review"
                 /\ runs'[r].response.partial_matches
                      = buildPartialMatches(runs[r].openInvoices, runs[r].paymentAmount)]_vars

\* Of two payments that were 'needs_review', one is now stored and returned
\* 'matched' and the other was returned 'needs_review' with suggestions.
C24_Witness ==
  \E r \in Runs, q \in Runs :
    /\ Returned(r) /\ runs[r].response.status = "matched"
    /\ payments[runs[r].response.payment.payment_id].status = "matched"
    /\ Returned(q) /\ runs[q].response.status = "needs_review"
    /\ runs[q].response.partial_matches # <<>>
    /\ payments[runs[q].response.payment.payment_id].status = "needs_review"

\* C25: in every reachable state, whatever runs interleave or fail part-way,
\* a payment's stored status is 'matched' exactly when its
\* matched_invoice_id is not null.
C25_PaymentRowInvariant ==
  \A p \in PaymentIds :
    payments[p].status = "matched" <=> payments[p].matched_invoice_id # NULL

\* One payment is stored 'matched' with its invoice and another was written
\* 'needs_review' with none.
C25_Witness ==
  \E p \in PaymentIds, q \in PaymentIds :
    /\ payments[p].status = "matched" /\ payments[p].matched_invoice_id # NULL
    /\ payments[q].status = "needs_review" /\ payments[q].matched_invoice_id = NULL

\* C26: a run stores its payment 'matched' only when the invoice is already
\* 'paid'; its invoice step never writes a payment, and goes on to the
\* payment write only with the invoice 'paid'; hence no payment is 'matched'
\* to an invoice that is still 'open'.
C26_WriteOrdering ==
  [][/\ \A r \in Runs :
          /\ (StepOf(r) /\ runs[r].pc = "update_payment" /\ runs[r].status = "matched"
              /\ payments'[runs[r].payment_id].status = "matched")
             => invoices[runs[r].matched_invoice_id].status = "paid"
          /\ (StepOf(r) /\ runs[r].pc = "update_invoice")
             => /\ payments' = payments
                /\ runs'[r].pc = "update_payment"
                   => invoices'[runs[r].matched_invoice_id].status = "paid"
                /\ runs'[r].pc # "update_payment" => runs'[r].pc = "done"
     /\ \A p \in PaymentIds :
          payments'[p].status = "matched"
          => invoices'[payments'[p].matched_invoice_id].status # "open"]_vars

\* One run ended on invoiceUpdateError with its payment still unmatched, and
\* another stored its payment 'matched' to an invoice that is 'paid'.
C26_Witness ==
  /\ \E r \in Runs :
       /\ runs[r].pc = "done"
       /\ runs[r].response.http = 500
       /\ runs[r].response.error = "invoiceUpdateError"
  /\ \E p \in PaymentIds, q \in PaymentIds :
       /\ payments[p].status = "matched"
       /\ invoices[payments[p].matched_invoice_id].status = "paid"
       /\ payments[q].status = "unmatched"

\* C27: when runs do not overlap and every write succeeds, each invoice is
\* referenced by at most one matched payment, and the snapshot of a run
\* holds no invoice a matched payment references.
C27_SequentialNoDoubleBooking ==
  /\ \A i \in InvoiceIds :
       Cardinality({p \in PaymentIds :
                      payments[p].status = "matched" /\ payments[p].matched_invoice_id = i}) =< 1
  /\ \A r \in Runs :
       runs[r].pc \in {"update_invoice", "update_payment"} =>
         \A a \in 1..Len(runs[r].openInvoices), p \in PaymentIds :
           payments[p].status = "matched" =>
             payments[p].matched_invoice_id # runs[r].openInvoices[a].invoice_id

\* A payment is matched to a paid invoice, and a second payment, within 0.01
\* of that invoice as well, was reconciled after it and is 'needs_review'.
C27_Witness ==
  \E p \in PaymentIds, q \in PaymentIds :
    /\ p # q
    /\ payments[p].status = "matched"
    /\ invoices[payments[p].matched_invoice_id].status = "paid"
    /\ payments[q].status = "needs_review"
    /\ Abs(parseNumeric(payments[q].amount_received)
           - parseNumeric(invoices[payments[p].matched_invoice_id].amount)) < EPSILON

\* C28: a step of a run changes no invoice but the one it matched, of its
\* own tenant, and that only by setting its status to 'paid'; it changes no
\* payment but the requested one, of its own tenant, and not its amount; and
\* a run on the 'needs_review' path changes no invoice.
C28_Frame ==
  [][\A r \in Runs :
       StepOf(r) =>
         /\ \A i \in InvoiceIds :
              invoices'[i] # invoices[i] =>
                /\ runs[r].status = "matched"
                /\ i = runs[r].matched_invoice_id
                /\ InvoiceTenant(i) = runs[r].tenant_id
                /\ invoices'[i] = [invoices[i] EXCEPT !.status = "paid"]
         /\ \A p \in PaymentIds :
              payments'[p] # payments[p] =>
                /\ p = runs[r].payment_id
                /\ PaymentTenant(p) = runs[r].tenant_id
                /\ payments'[p].amount_received = payments[p].amount_received
         /\ runs[r].status = "needs_review" => invoices' = invoices]_vars

\* A run returned 'matched': its invoice is 'paid', another invoice of the
\* tenant within 0.01 of the payment is still 'open', and another payment is
\* still 'unmatched'.
C28_Witness ==
  \E r \in Runs :
    /\ Returned(r)
    /\ runs[r].response.status = "matched"
    /\ invoices[runs[r].response.payment.matched_invoice_id].status = "paid"
    /\ \E i \in InvoiceIds :
         /\ i # runs[r].response.payment.matched_invoice_id
         /\ invoices[i].status = "open"
         /\ invoices[i].amount = invoices[runs[r].response.payment.matched_invoice_id].amount
    /\ \E p \in PaymentIds : payments[p].status = "unmatched"

\* C29: in a returned 'needs_review' result every suggestion of a single
\* invoice is of an invoice at least 0.01 away from the payment amount, and
\* its difference is at least one cent in absolute value.
C29_NoNearSingleSuggestion ==
  \A r \in Runs :
    (Returned(r) /\ runs[r].response.status = "needs_review") =>
      LET target == parseNumeric(payments[runs[r].response.payment.payment_id].amount_received)
          suggestions == runs[r].response.partial_matches
      IN \A a \in 1..Len(suggestions) :
           Len(suggestions[a].invoices) = 1 =>
             /\ Abs(target - suggestions[a].invoices[1].amount) >= EPSILON
             /\ Abs(suggestions[a].difference) * 100 >= Unit

\* A 'needs_review' result suggests a single invoice while an invoice of the
\* tenant within 0.01 of the payment exists but is not open.
C29_Witness ==
  \E r \in Runs :
    /\ Returned(r)
    /\ runs[r].response.status = "needs_review"
    /\ \E a \in 1..Len(runs[r].response.partial_matches) :
         Len(runs[r].response.partial_matches[a].invoices) = 1
    /\ \E i \in InvoiceIds :
         /\ InvoiceTenant(i) = PaymentTenant(runs[r].response.payment.payment_id)
         /\ invoices[i].status # "open"
         /\ Abs(parseNumeric(invoices[i].amount)
                - parseNumeric(payments[runs[r].response.payment.payment_id].amount_received))
              < EPSILON

\* Both suggestions are of one invoice, or both of several.
SameClass(s, u) == (Len(s.invoices) = 1) <=> (Len(u.invoices) = 1)

\* C30: of two returned suggestions of the same class the one with the
\* smaller |difference| never has the lower confidence, and within a class
\* the confidences do not increase along the returned order.
C30_ConfidenceMonotone ==
  mDone =>
    \A a, b \in 1..Len(mResult) :
      SameClass(mResult[a], mResult[b]) =>
        /\ Abs(mResult[a].difference) < Abs(mResult[b].difference)
           => mResult[a].confidence >= mResult[b].confidence
        /\ a < b => mResult[a].confidence >= mResult[b].confidence

\* A result holds two single invoices and two combinations, each pair with
\* different |difference| and different confidence.
C30_Witness ==
  /\ mDone
  /\ \E a, b \in 1..Len(mResult) :
       /\ Len(mResult[a].invoices) = 1 /\ Len(mResult[b].invoices) = 1
       /\ Abs(mResult[a].difference) < Abs(mResult[b].difference)
       /\ mResult[a].confidence > mResult[b].confidence
  /\ \E a, b \in 1..Len(mResult) :
       /\ Len(mResult[a].invoices) > 1 /\ Len(mResult[b].invoices) > 1
       /\ Abs(mResult[a].difference) < Abs(mResult[b].difference)
       /\ mResult[a].confidence > mResult[b].confidence
====
